---- MODULE Spec2Model ----
(***************************************************************************)
(* Milestone Counter: the detail screen's refresh path, the three screens  *)
(* and the form.                                                           *)
(*                                                                         *)
(*   getTimerValues   calendar breakdown of the span anchor <-> now        *)
(*   applySlider      collapse of the breakdown to the slider's unit       *)
(*   getActiveMessage choice of the date-triggered message to show         *)
(*   updateDetailDisplay, the slider's input handler, openDetailScreen     *)
(*   showScreen, startTicker, stopTicker and the click listeners           *)
(*   openFormScreen, addMessageToForm, handleFormSubmit, deleteTimer       *)
(*   savePhoto, deletePhoto and the form's photo picker                    *)
(*   the DOMContentLoaded handler                                          *)
(*   the service worker: its install, activate and fetch listeners         *)
(*                                                                         *)
(* A JavaScript Date is modelled by its local fields (year, month, day of   *)
(* the month, milliseconds since local midnight); its time value is the    *)
(* pair (day number, ms), so that every number stays within 32 bits.  An   *)
(* Invalid Date (time value NaN) has valid = FALSE.  The local time zone   *)
(* has a fixed offset: every local day is MsPerDay long.                   *)
(*                                                                         *)
(* An async handler is two actions: the one up to its await, which leaves  *)
(* a record in pending, and the one that resumes it, at any later time.    *)
(* The awaits are requests to the one object store of IndexedDB, which     *)
(* serves the readwrite transactions of a store in the order they were     *)
(* made: the handlers resume in that order.                                *)
(* Timers carry the fields the functions above read: id, date, mode,       *)
(* messages, wallpaper and photoTransform.  Of IndexedDB the keys of the   *)
(* photos are kept; localStorage and the DOM outside the four fields and   *)
(* the message of the detail screen are not.                               *)
(***************************************************************************)
EXTENDS Integers, Sequences, FiniteSets, TLC

\* ------------------------------------------------------------------ bounds

\* Last local day (counted from 1 January 2024) the clock may reach.
MaxDay == 430

\* Longest list of messages a timer is given in the resolver's specification.
MaxMsgs == 3

\* Most ids generateId gives out.
MaxTimers == 2

\* Most calls of one async handler suspended at their await at one time.
MaxPending == 1

\* Most requests the page makes while the service worker is watched.
MaxFetches == 2

\* ---------------------------------------------------------------- constants

\* 1000 * 60 * 60 * 24
MsPerDay == 86400000

\* ------------------------------------------------------- JavaScript numbers

\* Math.floor(a / b) for b > 0.
FloorDiv(a, b) == a \div b

\* a % b of JavaScript for b > 0: the remainder has the sign of the dividend.
JsRem(a, b) == IF a >= 0 THEN a % b ELSE -((-a) % b)

\* ------------------------------------------------------- the civil calendar

IsLeap(y) == (y % 4 = 0 /\ y % 100 # 0) \/ y % 400 = 0

LeapsBefore(y) == ((y - 1) \div 4) - ((y - 1) \div 100) + ((y - 1) \div 400)

\* Days from 1 January 2024, day 0 of the model, to 1 January of year y.
DaysBeforeYear(y) == (y - 2024) * 365 + LeapsBefore(y) - LeapsBefore(2024)

\* Days of year y before the first of month m (0 = January).
DaysBeforeMonth(y, m) ==
    <<0, 31, 59, 90, 120, 151, 181, 212, 243, 273, 304, 334>>[m + 1]
        + (IF m >= 2 /\ IsLeap(y) THEN 1 ELSE 0)

DaysInMonth(y, m) ==
    IF m = 1 THEN (IF IsLeap(y) THEN 29 ELSE 28)
    ELSE <<31, 28, 31, 30, 31, 30, 31, 31, 30, 31, 30, 31>>[m + 1]

\* MakeDay of ECMAScript: the day number of (year, month, date), where month
\* and date may lie outside their ranges and carry into the next unit.
MakeDay(y, m, d) ==
    LET yy == y + (m \div 12)
        mm == m % 12
    IN  DaysBeforeYear(yy) + DaysBeforeMonth(yy, mm) + d - 1

RECURSIVE YearFrom(_, _)
YearFrom(y, n) ==
    IF n >= DaysBeforeYear(y + 1) THEN YearFrom(y + 1, n)
    ELSE IF n < DaysBeforeYear(y) THEN YearFrom(y - 1, n)
    ELSE y

\* ------------------------------------------------------------------- Date

\* A Date is kept by its local fields: year y, month m (0..11), day of the
\* month d, and the milliseconds ms since local midnight; day is its local
\* day number.
InvalidDate == [valid |-> FALSE, day |-> 0, y |-> 0, m |-> 0, d |-> 0, ms |-> 0]

\* The Date of (year, month, date) at ms after midnight, as MakeDay and
\* MakeDate normalise it: a month outside 0..11 carries into the year, and a
\* date the month lacks (d is at most 31) carries into the following month.
MkDate(y, m, d, ms) ==
    LET yy == y + (m \div 12)
        mm == m % 12
        dm == DaysInMonth(yy, mm)
    IN  IF d <= dm
        THEN [valid |-> TRUE, day |-> MakeDay(yy, mm, d),
              y |-> yy, m |-> mm, d |-> d, ms |-> ms]
        ELSE [valid |-> TRUE, day |-> MakeDay(yy, mm, d),
              y |-> yy + ((mm + 1) \div 12), m |-> (mm + 1) % 12,
              d |-> d - dm, ms |-> ms]

\* The local day number of a valid Date.
DayNumber(dt) == dt.day

\* The Date of local day number n at ms after midnight.
DateOfDay(n, ms) ==
    LET y == YearFrom(2024 + (n \div 366), n)
        r == n - DaysBeforeYear(y)
        m == CHOOSE k \in 0..11 :
               /\ DaysBeforeMonth(y, k) <= r
               /\ r < DaysBeforeMonth(y, k) + DaysInMonth(y, k)
    IN  [valid |-> TRUE, day |-> n, y |-> y, m |-> m,
         d |-> r - DaysBeforeMonth(y, m) + 1, ms |-> ms]

\* Date.prototype.getFullYear / getMonth / getDate on a valid Date.
getFullYear(dt) == dt.y

getMonth(dt) == dt.m

getDate(dt) == dt.d

\* Date.prototype.setFullYear(y): month, date and time of day are kept, and a
\* date the new year lacks (29 February) carries into March.
setFullYear(dt, y) == MkDate(y, dt.m, dt.d, dt.ms)

\* Date.prototype.setMonth(m): m may exceed 11; a date the month lacks
\* carries into the following month.
setMonth(dt, m) == MkDate(dt.y, m, dt.d, dt.ms)

\* today.setHours(0, 0, 0, 0)
setHoursZero(dt) == [dt EXCEPT !.ms = 0]

\* a < b on Dates: the time values are compared, and any comparison with NaN
\* is false.
DateLt(a, b) ==
    /\ a.valid
    /\ b.valid
    /\ \/ DayNumber(a) < DayNumber(b)
       \/ (DayNumber(a) = DayNumber(b) /\ a.ms < b.ms)

\* Variant of DiffDaysFloor: the quotient is rounded, not floored.
DiffDaysNearest(a, b) ==
    (DayNumber(a) - DayNumber(b))
        + FloorDiv(2 * (a.ms - b.ms) + MsPerDay, 2 * MsPerDay)

\* Variant of DiffDaysFloor: the quotient is rounded up.
DiffDaysCeil(a, b) ==
    (DayNumber(a) - DayNumber(b)) - FloorDiv(b.ms - a.ms, MsPerDay)

\* Math.floor((a - b) / (1000 * 60 * 60 * 24)) on valid Dates.
DiffDaysFloor(a, b) ==
    (DayNumber(a) - DayNumber(b)) + FloorDiv(a.ms - b.ms, MsPerDay)

\* Math.round((a - b) / (1000 * 60 * 60 * 24)) on valid Dates; Math.round
\* takes a half upwards.
DiffDaysRound(a, b) ==
    (DayNumber(a) - DayNumber(b))
        + FloorDiv(2 * (a.ms - b.ms) + MsPerDay, 2 * MsPerDay)

\* A date string "YYYY-MM-DD" is the tuple <<year, month 1..12, day>>; the
\* empty string is <<>>.  new Date(str + 'T00:00:00') is local midnight of
\* that day, or an Invalid Date when the string names no calendar date.
NoDateStr == <<>>

ParseDate(str) ==
    IF /\ Len(str) = 3
       /\ str[2] \in 1..12
       /\ str[3] >= 1
       /\ str[3] <= DaysInMonth(str[1], str[2] - 1)
    THEN MkDate(str[1], str[2] - 1, str[3], 0)
    ELSE InvalidDate

\* en-GB long form of formatDate: <<day, month 0..11, year>>; the text
\* "Invalid Date" is <<>>.
formatDate(str) ==
    LET d == ParseDate(str)
    IN  IF d.valid THEN <<getDate(d), getMonth(d), getFullYear(d)>> ELSE <<>>

\* ------------------------------------------------- 5. time calculation

\* A breakdown { years, months, weeks, days, totalDays, isExpired }.  nan is
\* TRUE when the numeric fields are NaN (they are all NaN together: each is
\* computed from the Invalid Date), and the fields then read 0 here.
ExpiredVals ==
    [years |-> 0, months |-> 0, weeks |-> 0, days |-> 0, totalDays |-> 0,
     isExpired |-> TRUE, nan |-> FALSE]

NaNVals ==
    [years |-> 0, months |-> 0, weeks |-> 0, days |-> 0, totalDays |-> 0,
     isExpired |-> FALSE, nan |-> TRUE]

\* Variant of SpanFrom: the mode is not looked at.
SpanFromAnchor(timer, now) == ParseDate(timer.date)

\* fromDate and toDate by the timer's mode.
SpanFrom(timer, now) ==
    IF timer.mode = "countup" THEN ParseDate(timer.date) ELSE now

SpanTo(timer, now) ==
    IF timer.mode = "countup" THEN now ELSE ParseDate(timer.date)

\* Variant of IsExpiredSpan: a span of no length counts as expired.
IsExpiredSpanOrEmpty(fromDate, toDate) ==
    fromDate.valid /\ toDate.valid /\ ~DateLt(fromDate, toDate)

\* const isExpired = toDate < fromDate
IsExpiredSpan(fromDate, toDate) == DateLt(toDate, fromDate)

\* Variant of ElapsedYears: the correction is left out.
ElapsedYearsUncorrected(fromDate, toDate) ==
    LET years0 == getFullYear(toDate) - getFullYear(fromDate)
    IN  [years      |-> years0,
         afterYears |-> setFullYear(fromDate, getFullYear(fromDate) + years0)]

\* Variant of ElapsedYears: the correction is also made when fromDate moved
\* on by the difference of the calendar years falls on toDate itself.
ElapsedYearsCorrectedOnEqual(fromDate, toDate) ==
    LET years0      == getFullYear(toDate) - getFullYear(fromDate)
        afterYears0 == setFullYear(fromDate, getFullYear(fromDate) + years0)
    IN  IF ~DateLt(afterYears0, toDate)
        THEN [years      |-> years0 - 1,
              afterYears |-> setFullYear(afterYears0, getFullYear(afterYears0) - 1)]
        ELSE [years |-> years0, afterYears |-> afterYears0]

\* The years block: years and afterYears, corrected by one when fromDate
\* moved on by the difference of the calendar years lies after toDate.
ElapsedYears(fromDate, toDate) ==
    LET years0      == getFullYear(toDate) - getFullYear(fromDate)
        afterYears0 == setFullYear(fromDate, getFullYear(fromDate) + years0)
    IN  IF DateLt(toDate, afterYears0)
        THEN [years      |-> years0 - 1,
              afterYears |-> setFullYear(afterYears0, getFullYear(afterYears0) - 1)]
        ELSE [years |-> years0, afterYears |-> afterYears0]

\* The months block: difference of the calendar months, less one when the
\* day of the month of toDate is the smaller, and not below 0.
MonthsAfterYears(afterYears, toDate) ==
    LET months0 == (getFullYear(toDate) - getFullYear(afterYears)) * 12
                     + (getMonth(toDate) - getMonth(afterYears))
        months1 == IF getDate(toDate) < getDate(afterYears)
                   THEN months0 - 1 ELSE months0
    IN  IF months1 < 0 THEN 0 ELSE months1

getTimerValues(timer, now) ==
    LET fromDate == SpanFrom(timer, now)
        toDate   == SpanTo(timer, now)
    IN  IF IsExpiredSpan(fromDate, toDate) THEN ExpiredVals
        ELSE IF ~(fromDate.valid /\ toDate.valid) THEN NaNVals
        ELSE
          LET ey            == ElapsedYears(fromDate, toDate)
              months        == MonthsAfterYears(ey.afterYears, toDate)
              afterMonths   == setMonth(ey.afterYears, getMonth(ey.afterYears) + months)
              remainingDays == DiffDaysFloor(toDate, afterMonths)
          IN  [years     |-> ey.years,
               months    |-> months,
               weeks     |-> FloorDiv(remainingDays, 7),
               days      |-> JsRem(remainingDays, 7),
               totalDays |-> DiffDaysFloor(toDate, fromDate),
               isExpired |-> FALSE,
               nan       |-> FALSE]

\* ------------------------------------------------- 9. the unit slider

Disp(y, m, w, d) ==
    [dispYears |-> y, dispMonths |-> m, dispWeeks |-> w, dispDays |-> d,
     nan |-> FALSE]

NaNDisp ==
    [dispYears |-> 0, dispMonths |-> 0, dispWeeks |-> 0, dispDays |-> 0,
     nan |-> TRUE]

\* The branch sliderPosition === 1: the months are computed anew from the
\* active timer and from a clock reading of their own.
SliderMonths(timer, now) ==
    LET fromDate == SpanFrom(timer, now)
        toDate   == SpanTo(timer, now)
    IN  IF ~(fromDate.valid /\ toDate.valid) THEN NaNDisp
        ELSE
          LET total0 == (getFullYear(toDate) - getFullYear(fromDate)) * 12
                          + (getMonth(toDate) - getMonth(fromDate))
              total1 == IF getDate(toDate) < getDate(fromDate)
                        THEN total0 - 1 ELSE total0
              totalMonths == IF total1 < 0 THEN 0 ELSE total1
              afterMonths == setMonth(fromDate, getMonth(fromDate) + totalMonths)
              remDays     == DiffDaysFloor(toDate, afterMonths)
          IN  Disp(0, totalMonths, FloorDiv(remDays, 7), JsRem(remDays, 7))

\* Variant of applySlider: at position 2 the weeks and days of the breakdown
\* are shown, not those of totalDays.
applySliderWeeksOfBreakdown(vals, pos, timer, now) ==
    IF vals.isExpired THEN Disp(0, 0, 0, 0)
    ELSE IF pos = 0 THEN
        (IF vals.nan THEN NaNDisp
         ELSE Disp(vals.years, vals.months, vals.weeks, vals.days))
    ELSE IF pos = 1 THEN SliderMonths(timer, now)
    ELSE IF pos = 2 THEN
        (IF vals.nan THEN NaNDisp ELSE Disp(0, 0, vals.weeks, vals.days))
    ELSE
        (IF vals.nan THEN NaNDisp ELSE Disp(0, 0, 0, vals.totalDays))

\* applySlider(vals), with the globals it reads made parameters: the slider
\* position, the active timer, and the clock as the branch for position 1
\* reads it.
applySlider(vals, pos, timer, now) ==
    IF vals.isExpired THEN Disp(0, 0, 0, 0)
    ELSE IF pos = 0 THEN
        (IF vals.nan THEN NaNDisp
         ELSE Disp(vals.years, vals.months, vals.weeks, vals.days))
    ELSE IF pos = 1 THEN SliderMonths(timer, now)
    ELSE IF pos = 2 THEN
        (IF vals.nan THEN NaNDisp
         ELSE Disp(0, 0, FloorDiv(vals.totalDays, 7), JsRem(vals.totalDays, 7)))
    ELSE
        (IF vals.nan THEN NaNDisp ELSE Disp(0, 0, 0, vals.totalDays))

\* ------------------------------------------------- 11b. the active message

\* A message is { text, triggerType, triggerDate }.  The result of
\* getActiveMessage is { text, daysUntil, triggerLabel }, or null: found is
\* FALSE for null.
NoMessage == [found |-> FALSE, text |-> "", daysUntil |-> 0, triggerLabel |-> <<>>]

\* The state of the loop before any message: best = null, bestDaysUntil =
\* Infinity (inf is TRUE while bestDaysUntil is Infinity).
LoopStart == [best |-> NoMessage, inf |-> TRUE, bestDaysUntil |-> 0]

\* Variant of Replaces: the window opens the day after the trigger date.
ReplacesFromNextDay(daysUntil, st) ==
    /\ daysUntil < 0
    /\ (st.inf \/ daysUntil < st.bestDaysUntil)

\* Variant of Replaces: the window is the trigger date alone.
ReplacesOnTheDay(daysUntil, st) ==
    /\ daysUntil = 0
    /\ (st.inf \/ daysUntil < st.bestDaysUntil)

\* if (inWindow && daysUntil < bestDaysUntil)
Replaces(daysUntil, st) ==
    /\ daysUntil <= 0
    /\ (st.inf \/ daysUntil < st.bestDaysUntil)

\* Variant of LoopBody: a message without text is not skipped.
LoopBodyKeepsNoText(st, msg, today) ==
    IF ~(msg.triggerType = "date" /\ msg.triggerDate # NoDateStr) THEN st
    ELSE
      LET triggerDay == ParseDate(msg.triggerDate)
      IN  IF ~triggerDay.valid THEN st
          ELSE
            LET daysUntil == DiffDaysRound(triggerDay, today)
            IN  IF Replaces(daysUntil, st)
                THEN [best |-> [found        |-> TRUE,
                                text         |-> msg.text,
                                daysUntil    |-> daysUntil,
                                triggerLabel |-> formatDate(msg.triggerDate)],
                      inf |-> FALSE,
                      bestDaysUntil |-> daysUntil]
                ELSE st

\* One turn of the loop over the messages.
LoopBody(st, msg, today) ==
    IF msg.text = "" THEN st
    ELSE IF ~(msg.triggerType = "date" /\ msg.triggerDate # NoDateStr) THEN st
    ELSE
      LET triggerDay == ParseDate(msg.triggerDate)
      IN  IF ~triggerDay.valid THEN st      \* daysUntil is NaN: NaN <= 0 is false
          ELSE
            LET daysUntil == DiffDaysRound(triggerDay, today)
            IN  IF Replaces(daysUntil, st)
                THEN [best |-> [found        |-> TRUE,
                                text         |-> msg.text,
                                daysUntil    |-> daysUntil,
                                triggerLabel |-> formatDate(msg.triggerDate)],
                      inf |-> FALSE,
                      bestDaysUntil |-> daysUntil]
                ELSE st

RECURSIVE LoopFrom(_, _, _, _)
LoopFrom(st, messages, i, today) ==
    IF i > Len(messages) THEN st
    ELSE LoopFrom(LoopBody(st, messages[i], today), messages, i + 1, today)

\* getActiveMessage(timer, totalDays), with the clock it reads made a
\* parameter.
getActiveMessage(timer, now) ==
    IF Len(timer.messages) = 0 THEN NoMessage
    ELSE LoopFrom(LoopStart, timer.messages, 1, setHoursZero(now)).best

\* ------------------------------------------------------------------ state

VARIABLES
    appState,        \* [timers, activeTimerId]; a timer is [id, date, mode,
                     \* messages, wallpaper, photoTransform]
    currentScreen,   \* "list", "detail" or "form"
    tickerHandle,    \* the handle startTicker keeps, Null for null
    intervals,       \* the handles of the intervals the browser holds
    editingTimerId,  \* the timer the form edits, Null for a new timer
    formMessages,    \* the form's working list (dataset.messages)
    pending,         \* the async handlers suspended at their await, in
                     \* the order of their requests to IndexedDB
    photos,          \* the keys of the object store 'photos' of IndexedDB
    formWallpaperSelection,     \* "none" or "photo"
    formPendingPhotoBlob,       \* TRUE for a Blob, FALSE for null
    formPendingPhotoTransform,  \* a transform, Null for null
    nextId,          \* the number of the next id generateId gives out
    clock,           \* the wall clock as last read: a valid Date
    sliderPosition,  \* 0 = Years, 1 = Months, 2 = Weeks, 3 = Days
    rendered,        \* TRUE once updateDetailDisplay has shown a timer
    reads,           \* the clock as the last refresh read it: now of
                     \* getTimerValues, now of applySlider, today's source
                     \* in getActiveMessage
    vals,            \* the breakdown of the last refresh
    disp,            \* what applySlider made of it
    detailMessage,   \* the message of the last refresh, NoMessage for none
    page,            \* the page's startup: whether DOMContentLoaded has been
                     \* handled, the elements that got their listener,
                     \* whether the handler threw, whether the service
                     \* worker's registration was asked for
    caches,          \* the CacheStorage of the origin: the caches in the
                     \* order they were made, each [name, urls]
    worker,          \* the service worker of sw.js: its state, where its
                     \* install or activate listener stands, the URLs
                     \* addAll could not fetch, the names activate has
                     \* still to delete, and whether a worker of the
                     \* previous version was active before it
    fetchEvents,     \* the requests of the page so far, each with the
                     \* worker that got its fetch event and how far its
                     \* listener has come
    puts,            \* the cache.put calls not yet served
    milestoneTimer,  \* the milestone revision: the timer its detail screen
                     \* shows, [date, mode, milestoneKeys, customMilestones,
                     \* messages, shownMilestones]
    milestoneScreen, \* the milestone revision: "detail", "form", or
                     \* "saving" while handleFormSubmit is at its await
    milestoneOverlay,\* the milestone the overlay shows, "" while hidden
    milestoneDetail, \* the milestone revision: totalDays of the last
                     \* refresh and the message it showed
    shownLog         \* the keys showMilestoneOverlay has been called for
                     \* since the timer's date was last set

vars ==
    <<appState, currentScreen, tickerHandle, intervals, editingTimerId,
      formMessages, pending, nextId, clock, sliderPosition, rendered, reads,
      vals, disp, detailMessage, page, photos, formWallpaperSelection,
      formPendingPhotoBlob, formPendingPhotoTransform, caches, worker,
      fetchEvents, puts, milestoneTimer, milestoneScreen, milestoneOverlay,
      milestoneDetail, shownLog>>

\* What a refresh writes.
display == <<clock, rendered, reads, vals, disp, detailMessage>>

\* What the form's photo picker keeps.
photoForm ==
    <<formWallpaperSelection, formPendingPhotoBlob, formPendingPhotoTransform>>

\* What the form and the async handlers keep.
formState == <<editingTimerId, formMessages, pending, nextId, photos, photoForm>>

\* What the service worker keeps.
workerState == <<caches, worker, fetchEvents, puts>>

\* What the milestone revision keeps.
revision ==
    <<milestoneTimer, milestoneScreen, milestoneOverlay, milestoneDetail, shownLog>>

\* What the handlers of the three screens leave alone.
outside == <<page, workerState, revision>>

\* null, for an id and for a handle; ids and handles are 1, 2, ...
Null == 0

\* appState.timers.find(t => t.id === id): whether there is one, and which.
HasTimer(timers, id) == \E i \in 1..Len(timers) : timers[i].id = id

findIndex(timers, id) ==
    IF HasTimer(timers, id)
    THEN CHOOSE i \in 1..Len(timers) :
            /\ timers[i].id = id
            /\ \A j \in 1..(i - 1) : timers[j].id # id
    ELSE 0

NoTimer ==
    [id |-> Null, date |-> NoDateStr, mode |-> "countdown", messages |-> <<>>,
     wallpaper |-> "none", photoTransform |-> Null]

find(timers, id) ==
    IF HasTimer(timers, id) THEN timers[findIndex(timers, id)] ELSE NoTimer

\* The active timer, as updateDetailDisplay and applySlider look it up.
timer == find(appState.timers, appState.activeTimerId)

\* ------------------------------------------------------------------ clock

\* The times of day the clock is read at: midnight, the millisecond after
\* it, and the last millisecond of the day.
TimesOfDay == {0, 1, MsPerDay - 1}

NextInstant(c) ==
    IF c.ms = MsPerDay - 1 THEN MkDate(c.y, c.m, c.d + 1, 0)
    ELSE IF c.ms = 0 THEN [c EXCEPT !.ms = 1]
    ELSE [c EXCEPT !.ms = MsPerDay - 1]

\* What a reading of the clock (new Date()) may return after the reading c:
\* the clock never runs backwards here, and has either stayed or moved on.
LastInstant == DateOfDay(MaxDay, MsPerDay - 1)

Later(c) == IF c = LastInstant THEN {c} ELSE {c, NextInstant(c)}

\* ------------------------------------------------------------ the inputs

\* The date string of local day n.
DateStrOfDay(n) ==
    LET d == DateOfDay(n, 0)
    IN  <<d.y, d.m + 1, d.d>>

\* The timers of the decomposer's specification.  Counting up: from the end
\* of a 31-day month, from 1 February, from a leap day, from a date still to
\* come for most of the window.  Counting down: to a leap day, to a date more
\* than a year on.  And, in both modes, a date string that does not parse.
Timers ==
    {[id |-> 1, date |-> <<2024, 1, 31>>, mode |-> "countup",   messages |-> <<>>,
      wallpaper |-> "none", photoTransform |-> Null],
     [id |-> 1, date |-> <<2024, 2, 1>>,  mode |-> "countup",   messages |-> <<>>,
      wallpaper |-> "none", photoTransform |-> Null],
     [id |-> 1, date |-> <<2024, 2, 29>>, mode |-> "countup",   messages |-> <<>>,
      wallpaper |-> "none", photoTransform |-> Null],
     [id |-> 1, date |-> <<2025, 3, 1>>,  mode |-> "countup",   messages |-> <<>>,
      wallpaper |-> "none", photoTransform |-> Null],
     [id |-> 1, date |-> <<2024, 2, 29>>, mode |-> "countdown", messages |-> <<>>,
      wallpaper |-> "none", photoTransform |-> Null],
     [id |-> 1, date |-> <<2025, 3, 1>>,  mode |-> "countdown", messages |-> <<>>,
      wallpaper |-> "none", photoTransform |-> Null],
     [id |-> 1, date |-> NoDateStr,       mode |-> "countup",   messages |-> <<>>,
      wallpaper |-> "none", photoTransform |-> Null],
     [id |-> 1, date |-> NoDateStr,       mode |-> "countdown", messages |-> <<>>,
      wallpaper |-> "none", photoTransform |-> Null]}

\* The two days messages are triggered on, near the end of the window.
TriggerDay1 == MaxDay - 2
TriggerDay2 == MaxDay - 1

\* Well-formed messages, as addMessageToForm builds them.
GoodMessages ==
    [text : {"A", "B"}, triggerType : {"date"},
     triggerDate : {DateStrOfDay(TriggerDay1), DateStrOfDay(TriggerDay2)}]

\* Malformed messages: no text; a date that does not parse; and a message
\* of the milestone revision, which has no trigger date at all.
BadMessages ==
    {[text |-> "",  triggerType |-> "date", triggerDate |-> DateStrOfDay(TriggerDay1)],
     [text |-> "A", triggerType |-> "date", triggerDate |-> <<2024, 13, 1>>],
     [text |-> "B", triggerType |-> "milestone", triggerDate |-> NoDateStr]}

Messages == GoodMessages \cup BadMessages

MessageLists == UNION {[1..n -> Messages] : n \in 0..MaxMsgs}

\* What the user may have typed into the form: the timer's date and mode
\* (readFormValues returns null on an empty name or date) ...
FormValues == {[date |-> <<2024, 2, 1>>, mode |-> "countup"]}

\* ... and the message's text, trimmed, and trigger date, either of which
\* may be empty.
FormMessageInputs ==
    {[text |-> "A", triggerDate |-> DateStrOfDay(TriggerDay1)],
     [text |-> "",  triggerDate |-> DateStrOfDay(TriggerDay1)],
     [text |-> "A", triggerDate |-> NoDateStr]}

\* --------------------------------------------------------- 13. startup

\* The functions the script declares, of those the DOMContentLoaded handler
\* names.
Declared ==
    {"loadState", "applyTheme", "renderTimerList", "openFormScreen",
     "toggleTheme", "stopTicker", "showScreen", "openDetailScreen",
     "handleFormSubmit", "deleteTimer", "switchWallpaperTab",
     "donePhotoEditor", "cancelPhotoEditor", "onEditorPointerDown",
     "onEditorPointerMove", "onEditorPointerUp", "updateDetailDisplay",
     "addMessageToForm"}

\* A statement of the handler that adds a listener: the element it is added
\* to, and the names the statement evaluates as it runs: a function passed
\* by name.  What the body of an arrow function names is not evaluated until
\* the listener is called.
Listener(target, evaluates) == [target |-> target, evaluates |-> evaluates]

\* The handler's statements after loadState(); applyTheme();
\* renderTimerList(), in their order, up to the registration of the service
\* worker, which is the last.
Statements ==
    <<Listener("btn-new-timer", {}),
      Listener("theme-toggle", {"toggleTheme"}),
      Listener("btn-back", {}),
      Listener("btn-edit-timer", {}),
      Listener("btn-form-cancel", {}),
      Listener("timer-form", {"handleFormSubmit"}),
      Listener("btn-form-delete", {"deleteTimer"}),
      Listener("mode-toggle-btn", {}),
      Listener("wp-tab", {}),
      Listener("btn-wp-none", {}),
      Listener("input-wp-photo", {}),
      Listener("btn-wp-remove-photo", {}),
      Listener("btn-wp-adjust-photo", {}),
      Listener("btn-photo-editor-done", {"donePhotoEditor"}),
      Listener("btn-photo-editor-cancel", {"cancelPhotoEditor"}),
      Listener("photo-editor-viewport",
               {"onEditorPointerDown", "onEditorPointerMove", "onEditorPointerUp"}),
      Listener("unit-slider", {}),
      Listener("btn-add-message", {"addMessageToForm"}),
      Listener("btn-add-custom-milestone", {"addCustomMilestoneToForm"}),
      Listener("input-custom-days", {}),
      Listener("milestone-overlay", {})>>

\* The statements from the i-th on, run with the listeners ls added so far:
\* a name that is not declared throws a ReferenceError, which ends the
\* handler.
RECURSIVE RunFrom(_, _)
RunFrom(i, ls) ==
    IF i > Len(Statements) THEN [listeners |-> ls, threw |-> FALSE]
    ELSE IF Statements[i].evaluates \subseteq Declared
         THEN RunFrom(i + 1, ls \cup {Statements[i].target})
         ELSE [listeners |-> ls, threw |-> TRUE]

\* The page once the handler has ended; serviceWorker is whether
\* 'serviceWorker' in navigator.
Loaded(serviceWorker) ==
    LET run == RunFrom(1, {})
    IN  [loaded        |-> TRUE,
         listeners     |-> run.listeners,
         threw         |-> run.threw,
         serviceWorker |-> serviceWorker,
         registered    |-> ~run.threw /\ serviceWorker]

\* The page before DOMContentLoaded.
Loading(serviceWorker) ==
    [loaded        |-> FALSE,
     listeners     |-> {},
     threw         |-> FALSE,
     serviceWorker |-> serviceWorker,
     registered    |-> FALSE]

\* ------------------------------------------------------------ 7. ticker

\* The ticker is tickerHandle and the intervals the browser holds; the three
\* functions take it as it stands and give it back as they leave it.
Ticker == [handle |-> tickerHandle, live |-> intervals]

\* setInterval returns a handle no interval in use has.
setInterval(live) == CHOOSE h \in 1..(Cardinality(live) + 1) : h \notin live

stopTicker(tk) ==
    IF tk.handle # Null
    THEN [handle |-> Null, live |-> tk.live \ {tk.handle}]
    ELSE tk

\* Variant of startTicker: the ticker that runs is not stopped first.
startTickerKeepsRunning(tk) ==
    [handle |-> setInterval(tk.live), live |-> tk.live \cup {setInterval(tk.live)}]

startTicker(tk) ==
    LET stopped == stopTicker(tk)
        handle  == setInterval(stopped.live)
    IN  [handle |-> handle, live |-> stopped.live \cup {handle}]

\* ----------------------------------------------------- 6. screen router

\* showScreen(name) on the ticker: if (name !== 'detail') stopTicker().
showScreenTicker(name, tk) == IF name # "detail" THEN stopTicker(tk) ELSE tk

\* showScreen(name), after the ticker has been left as tk.
showScreen(name, tk) ==
    /\ currentScreen' = name
    /\ tickerHandle' = showScreenTicker(name, tk).handle
    /\ intervals' = showScreenTicker(name, tk).live

\* ----------------------------------------------------------- the refresh

\* updateDetailDisplay(), with the globals it reads made parameters: the
\* timers, the active id, the slider position and the first reading of the
\* clock.  Without an active timer it returns at once.  getTimerValues reads
\* the clock (n1); applySlider reads it again in its branch for position 1
\* (n2); getActiveMessage reads it once more unless the timer has no
\* messages (n3).  Between two readings the clock may have moved on.
updateDetailDisplay(timers, activeTimerId, pos, n1) ==
    IF ~HasTimer(timers, activeTimerId) THEN UNCHANGED display
    ELSE
      LET t == find(timers, activeTimerId)
          v == getTimerValues(t, n1)
      IN  \E n2 \in (IF pos = 1 /\ ~v.isExpired THEN Later(n1) ELSE {n1}) :
              \E n3 \in (IF Len(t.messages) = 0 THEN {n2} ELSE Later(n2)) :
                  /\ vals' = v
                  /\ disp' = applySlider(v, pos, t, n2)
                  /\ detailMessage' = getActiveMessage(t, n3)
                  /\ rendered' = TRUE
                  /\ reads' = [values |-> n1, slider |-> n2, message |-> n3]
                  /\ clock' = n3

\* An interval fires: setInterval(updateDetailDisplay, 60 * 1000).  Time has
\* passed since the clock was last read.
Tick ==
    /\ intervals # {}
    /\ \E n1 \in Later(clock) :
          updateDetailDisplay(appState.timers, appState.activeTimerId,
                              sliderPosition, n1)
    /\ UNCHANGED <<appState, currentScreen, tickerHandle, intervals,
                   sliderPosition, formState, outside>>

\* The input handler of the unit slider, which the detail screen shows.
SliderInput ==
    /\ "unit-slider" \in page.listeners
    /\ currentScreen = "detail"
    /\ \E p \in 0..3 :
          /\ sliderPosition' = p
          /\ updateDetailDisplay(appState.timers, appState.activeTimerId, p, clock)
    /\ UNCHANGED <<appState, currentScreen, tickerHandle, intervals, formState,
                   outside>>

\* ------------------------------------------------ 9. the detail screen

\* Variant of openDetailScreen: the slider is left where it stands.
openDetailScreenKeepsSlider(timers, timerId) ==
    /\ appState' = [timers |-> timers, activeTimerId |-> timerId]
    /\ IF HasTimer(timers, timerId)
       THEN /\ UNCHANGED sliderPosition
            /\ updateDetailDisplay(timers, timerId, sliderPosition, clock)
            /\ showScreen("detail", startTicker(Ticker))
       ELSE /\ showScreen("detail", Ticker)
            /\ UNCHANGED <<sliderPosition, display>>

\* openDetailScreen(timerId), called with the timers as they stand: the
\* timer is made the active one and the detail screen is shown; if there is
\* such a timer, the slider goes back to Years, the display is updated and
\* the ticker is started.  (saveState and the wallpaper touch nothing kept
\* here; the function has no await.)
openDetailScreen(timers, timerId) ==
    /\ appState' = [timers |-> timers, activeTimerId |-> timerId]
    /\ IF HasTimer(timers, timerId)
       THEN /\ sliderPosition' = 0
            /\ updateDetailDisplay(timers, timerId, 0, clock)
            /\ showScreen("detail", startTicker(Ticker))
       ELSE /\ showScreen("detail", Ticker)
            /\ UNCHANGED <<sliderPosition, display>>

\* A card of the timer list is clicked.
ListClick ==
    /\ page.loaded
    /\ currentScreen = "list"
    /\ \E i \in 1..Len(appState.timers) :
          openDetailScreen(appState.timers, appState.timers[i].id)
    /\ UNCHANGED <<formState, outside>>

\* btn-back: stopTicker(); renderTimerList(); showScreen('list').
BackClick ==
    /\ "btn-back" \in page.listeners
    /\ currentScreen = "detail"
    /\ showScreen("list", stopTicker(Ticker))
    /\ UNCHANGED <<appState, sliderPosition, display, formState, outside>>

\* ---------------------------------------------------- 10. the form screen

\* openFormScreen(timerId): the form is filled from the timer, if there is
\* one, and shown.
openFormScreen(timerId) ==
    /\ editingTimerId' = timerId
    /\ formMessages' = IF timerId # Null /\ HasTimer(appState.timers, timerId)
                       THEN find(appState.timers, timerId).messages
                       ELSE <<>>
    /\ formWallpaperSelection' =
          IF timerId # Null /\ HasTimer(appState.timers, timerId)
          THEN find(appState.timers, timerId).wallpaper
          ELSE "none"
    /\ formPendingPhotoBlob' = FALSE
    /\ formPendingPhotoTransform' =
          IF timerId # Null /\ HasTimer(appState.timers, timerId)
          THEN find(appState.timers, timerId).photoTransform
          ELSE Null
    /\ showScreen("form", Ticker)
    /\ UNCHANGED <<appState, pending, nextId, photos, sliderPosition, display,
                   outside>>

\* btn-new-timer
NewTimerClick ==
    /\ "btn-new-timer" \in page.listeners
    /\ currentScreen = "list"
    /\ openFormScreen(Null)

\* btn-edit-timer
EditClick ==
    /\ "btn-edit-timer" \in page.listeners
    /\ currentScreen = "detail"
    /\ IF appState.activeTimerId # Null
       THEN openFormScreen(appState.activeTimerId)
       ELSE UNCHANGED vars

\* btn-form-cancel
CancelClick ==
    /\ "btn-form-cancel" \in page.listeners
    /\ currentScreen = "form"
    /\ IF appState.activeTimerId # Null /\ editingTimerId # Null
       THEN /\ openDetailScreen(appState.timers, appState.activeTimerId)
            /\ UNCHANGED formState
       ELSE /\ showScreen("list", Ticker)
            /\ UNCHANGED <<appState, sliderPosition, display, formState>>
    /\ UNCHANGED outside

\* No timer may hold more messages than this.
MessageLimit == 5

\* Variant of addMessageToForm: the length of the list is not looked at.
addMessageToFormUnlimited ==
    /\ "btn-add-message" \in page.listeners
    /\ currentScreen = "form"
    /\ \E input \in FormMessageInputs :
          formMessages' =
              IF input.text = "" \/ input.triggerDate = NoDateStr
              THEN formMessages
              ELSE Append(formMessages,
                          [text |-> input.text, triggerType |-> "date",
                           triggerDate |-> input.triggerDate])
    /\ UNCHANGED <<appState, currentScreen, tickerHandle, intervals,
                   editingTimerId, pending, nextId, photos, photoForm,
                   sliderPosition, display, outside>>

\* btn-add-message: a message without text or date is refused, and so is
\* any message once the list holds MessageLimit.
addMessageToForm ==
    /\ "btn-add-message" \in page.listeners
    /\ currentScreen = "form"
    /\ \E input \in FormMessageInputs :
          formMessages' =
              IF input.text = "" \/ input.triggerDate = NoDateStr
              THEN formMessages
              ELSE IF Len(formMessages) >= MessageLimit THEN formMessages
              ELSE Append(formMessages,
                          [text |-> input.text, triggerType |-> "date",
                           triggerDate |-> input.triggerDate])
    /\ UNCHANGED <<appState, currentScreen, tickerHandle, intervals,
                   editingTimerId, pending, nextId, photos, photoForm,
                   sliderPosition, display, outside>>

\* The remove button of the message at index (1 for the first).
RemoveMessage ==
    /\ currentScreen = "form"
    /\ \E index \in 1..Len(formMessages) :
          formMessages' = [k \in 1..(Len(formMessages) - 1) |->
                              IF k < index THEN formMessages[k]
                              ELSE formMessages[k + 1]]
    /\ UNCHANGED <<appState, currentScreen, tickerHandle, intervals,
                   editingTimerId, pending, nextId, photos, photoForm,
                   sliderPosition, display, outside>>

\* The calls of the handler fn suspended at their await.
Suspended(fn) == Cardinality({i \in 1..Len(pending) : pending[i].fn = fn})

\* What the photo editor's Done may store: the x, y and scale of the crop.
Transforms == {1, 2}

\* input-wp-photo: a file is chosen, an image or not.
ChoosePhoto ==
    /\ "input-wp-photo" \in page.listeners
    /\ currentScreen = "form"
    /\ \E isImage \in BOOLEAN :
          IF ~isImage THEN UNCHANGED photoForm
          ELSE /\ formPendingPhotoBlob' = TRUE
               /\ formPendingPhotoTransform' = Null
               /\ formWallpaperSelection' = "photo"
    /\ UNCHANGED <<appState, currentScreen, tickerHandle, intervals,
                   editingTimerId, formMessages, pending, nextId, photos,
                   sliderPosition, display, outside>>

\* btn-wp-remove-photo
RemovePhoto ==
    /\ "btn-wp-remove-photo" \in page.listeners
    /\ currentScreen = "form"
    /\ formPendingPhotoBlob' = FALSE
    /\ formPendingPhotoTransform' = Null
    /\ formWallpaperSelection' = "none"
    /\ UNCHANGED <<appState, currentScreen, tickerHandle, intervals,
                   editingTimerId, formMessages, pending, nextId, photos,
                   sliderPosition, display, outside>>

\* btn-photo-editor-done, in the editor that btn-wp-adjust-photo opens over
\* the form when the form's wallpaper is a photo: the crop is kept for the
\* submit.
donePhotoEditor ==
    /\ "btn-photo-editor-done" \in page.listeners
    /\ currentScreen = "form"
    /\ formWallpaperSelection = "photo"
    /\ \E transform \in Transforms : formPendingPhotoTransform' = transform
    /\ UNCHANGED <<appState, currentScreen, tickerHandle, intervals,
                   editingTimerId, formMessages, pending, nextId, photos,
                   formWallpaperSelection, formPendingPhotoBlob,
                   sliderPosition, display, outside>>

\* photoTransform of the timer that handleFormSubmit stores in place of an
\* existing one: formPendingPhotoTransform || existing.photoTransform || null
\* when the wallpaper is a photo.
EditedTransform(existingTransform) ==
    IF formWallpaperSelection = "photo"
    THEN (IF formPendingPhotoTransform # Null THEN formPendingPhotoTransform
          ELSE existingTransform)
    ELSE Null

\* handleFormSubmit up to its await, or to its end when it awaits nothing
\* (the wallpaper is a photo and none is pending).  The timer edited is
\* replaced if it is still there, or a new timer is appended under a fresh
\* id; then the handler awaits savePhoto or deletePhoto.
handleFormSubmit ==
    /\ "timer-form" \in page.listeners
    /\ currentScreen = "form"
    /\ \E values \in FormValues :
          IF values.date = NoDateStr THEN UNCHANGED vars
          ELSE
            LET index    == findIndex(appState.timers, editingTimerId)
                newTimer == [id |-> nextId, date |-> values.date,
                             mode |-> values.mode, messages |-> formMessages,
                             wallpaper |-> formWallpaperSelection,
                             photoTransform |->
                                 IF formWallpaperSelection = "photo"
                                 THEN formPendingPhotoTransform ELSE Null]
                timers   == IF editingTimerId # Null
                            THEN (IF index # 0
                                  THEN [appState.timers EXCEPT ![index] =
                                          [@ EXCEPT !.date = values.date,
                                                    !.mode = values.mode,
                                                    !.messages = formMessages,
                                                    !.wallpaper = formWallpaperSelection,
                                                    !.photoTransform = EditedTransform(@)]]
                                  ELSE appState.timers)
                            ELSE Append(appState.timers, newTimer)
                savedId  == IF editingTimerId # Null THEN editingTimerId ELSE nextId
                request  == IF formPendingPhotoBlob /\ formWallpaperSelection = "photo"
                            THEN "put"
                            ELSE IF formWallpaperSelection # "photo" THEN "delete"
                            ELSE "none"
            IN  /\ editingTimerId = Null => nextId <= MaxTimers
                /\ nextId' = IF editingTimerId # Null THEN nextId ELSE nextId + 1
                /\ UNCHANGED <<editingTimerId, formMessages, photos, photoForm>>
                /\ IF request # "none"
                   THEN /\ Suspended("handleFormSubmit") < MaxPending
                        /\ pending' = Append(pending,
                                             [fn |-> "handleFormSubmit",
                                              savedId |-> savedId,
                                              request |-> request])
                        /\ appState' = [appState EXCEPT !.timers = timers]
                        /\ UNCHANGED <<currentScreen, tickerHandle, intervals,
                                       sliderPosition, display>>
                   ELSE /\ openDetailScreen(timers, savedId)
                        /\ UNCHANGED pending
    /\ UNCHANGED outside

\* The object store after the request of the suspended handler h.
Served(h) ==
    IF h.request = "put" THEN photos \cup {h.savedId} ELSE photos \ {h.savedId}

\* handleFormSubmit after its await, the photo put or deleted: saveState();
\* renderTimerList(); openDetailScreen(savedId).
handleFormSubmitResume ==
    /\ pending # <<>>
    /\ Head(pending).fn = "handleFormSubmit"
    /\ pending' = Tail(pending)
    /\ photos' = Served(Head(pending))
    /\ openDetailScreen(appState.timers, Head(pending).savedId)
    /\ UNCHANGED <<editingTimerId, formMessages, nextId, photoForm, outside>>

\* deleteTimer up to its await of deletePhoto(editingTimerId).
deleteTimer ==
    /\ "btn-form-delete" \in page.listeners
    /\ currentScreen = "form"
    /\ \E confirmed \in BOOLEAN :
          IF editingTimerId = Null \/ ~confirmed THEN UNCHANGED vars
          ELSE /\ Suspended("deleteTimer") < MaxPending
               /\ pending' = Append(pending,
                                    [fn |-> "deleteTimer",
                                     savedId |-> editingTimerId,
                                     request |-> "delete"])
               /\ UNCHANGED <<appState, currentScreen, tickerHandle, intervals,
                              editingTimerId, formMessages, nextId, photos,
                              photoForm, sliderPosition, display>>
    /\ UNCHANGED outside

\* deleteTimer after its await, the photo deleted: the timers are filtered
\* by editingTimerId as it stands by then, and the list is shown.
deleteTimerResume ==
    /\ pending # <<>>
    /\ Head(pending).fn = "deleteTimer"
    /\ pending' = Tail(pending)
    /\ photos' = Served(Head(pending))
    /\ LET Kept(t) == t.id # editingTimerId
       IN  appState' =
             [timers |-> SelectSeq(appState.timers, Kept),
              activeTimerId |-> IF appState.activeTimerId = editingTimerId
                                THEN Null ELSE appState.activeTimerId]
    /\ showScreen("list", Ticker)
    /\ UNCHANGED <<editingTimerId, formMessages, nextId, photoForm,
                   sliderPosition, display, outside>>

\* The handler of DOMContentLoaded, whole: loadState(), applyTheme(),
\* renderTimerList(), then the listeners, then the registration of the
\* service worker if the browser has one.
DOMContentLoaded ==
    /\ ~page.loaded
    /\ page' = Loaded(page.serviceWorker)
    /\ UNCHANGED <<appState, currentScreen, tickerHandle, intervals,
                   sliderPosition, display, formState, workerState, revision>>

\* ---------------------------------------------------- the service worker

\* The cache of this version of the worker (sw.js), and the cache of the
\* version before it (the worker of the earlier revision).
CACHE_VERSION == "milestone-v10"

PreviousVersion == "milestone-v1"

\* The app shell, the same list in both versions.
PRECACHE_URLS ==
    {"./", "./index.html", "./style.css", "./app.js", "./manifest.json",
     "./icons/icon-192.png", "./icons/icon-512.png"}

\* What the page asks for: a file of the app shell, and one that is not.
RequestUrls == {"./app.js", "./favicon.ico"}

\* CacheStorage: has, open (which makes the cache if there is none), delete,
\* and match, which asks the caches in the order they were made.
HasCache(cs, name) == \E i \in 1..Len(cs) : cs[i].name = name

CachesOpen(cs, name) ==
    IF HasCache(cs, name) THEN cs ELSE Append(cs, [name |-> name, urls |-> {}])

CachesDelete(cs, name) ==
    LET Other(c) == c.name # name
    IN  SelectSeq(cs, Other)

NoMatch == ""

\* Variant of CachesMatch: only the cache of this version is asked.
CachesMatchCurrent(cs, url) ==
    IF \E i \in 1..Len(cs) : cs[i].name = "milestone-v10" /\ url \in cs[i].urls
    THEN "milestone-v10"
    ELSE NoMatch

CachesMatch(cs, url) ==
    IF \E i \in 1..Len(cs) : url \in cs[i].urls
    THEN LET first == CHOOSE i \in 1..Len(cs) :
                          /\ url \in cs[i].urls
                          /\ \A j \in 1..(i - 1) : url \notin cs[j].urls
         IN  cs[first].name
    ELSE NoMatch

\* cache.put and cache.addAll on the cache of that name, which is open.
CachePutAll(cs, name, urls) ==
    [i \in 1..Len(cs) |->
        IF cs[i].name = name THEN [cs[i] EXCEPT !.urls = @ \cup urls] ELSE cs[i]]

\* The cache a worker writes to.
VersionOf(w) == IF w = "new" THEN CACHE_VERSION ELSE PreviousVersion

\* The app's handlers do not touch the service worker, nor the worker the
\* app.
app ==
    <<appState, currentScreen, tickerHandle, intervals, sliderPosition,
      display, formState, page, revision>>

\* install: event.waitUntil(caches.open(CACHE_VERSION) ...), up to the open.
Install ==
    /\ worker.state = "parsed"
    /\ worker' = [worker EXCEPT !.state = "installing", !.at = "open"]
    /\ UNCHANGED <<caches, fetchEvents, puts, app>>

\* caches.open(CACHE_VERSION) is served; cache.addAll(PRECACHE_URLS) is
\* called.
InstallOpened ==
    /\ worker.state = "installing"
    /\ worker.at = "open"
    /\ caches' = CachesOpen(caches, CACHE_VERSION)
    /\ worker' = [worker EXCEPT !.at = "addAll"]
    /\ UNCHANGED <<fetchEvents, puts, app>>

\* The URLs whose fetch may fail while cache.addAll runs: none, one, two.
FailedFetches == {{}, {"./app.js"}, {"./", "./icons/icon-512.png"}}

\* Variant of InstallAddAll: what could be fetched is stored and the
\* promise resolves, whatever failed.
InstallAddAllSettled ==
    /\ worker.state = "installing"
    /\ worker.at = "addAll"
    /\ \E failed \in FailedFetches :
          /\ caches' = CachePutAll(caches, CACHE_VERSION, PRECACHE_URLS \ failed)
          /\ worker' = [worker EXCEPT !.at = "skipWaiting", !.failed = failed]
    /\ UNCHANGED <<fetchEvents, puts, app>>

\* cache.addAll(PRECACHE_URLS) is served: every URL is fetched, and either
\* all responses are stored, or, one fetch having failed, none is and the
\* promise rejects: the install fails, skipWaiting is not called.
InstallAddAll ==
    /\ worker.state = "installing"
    /\ worker.at = "addAll"
    /\ \E failed \in FailedFetches :
          IF failed = {}
          THEN /\ caches' = CachePutAll(caches, CACHE_VERSION, PRECACHE_URLS)
               /\ worker' = [worker EXCEPT !.at = "skipWaiting"]
          ELSE /\ caches' = caches
               /\ worker' = [worker EXCEPT !.state = "redundant", !.at = "rejected",
                                           !.failed = failed]
    /\ UNCHANGED <<fetchEvents, puts, app>>

\* .then(() => self.skipWaiting()): the install has succeeded, and the
\* worker does not wait for the pages of the previous one to close.
InstallSkipWaiting ==
    /\ worker.state = "installing"
    /\ worker.at = "skipWaiting"
    /\ worker' = [worker EXCEPT !.state = "installed", !.at = "done",
                                !.skipWaiting = TRUE]
    /\ UNCHANGED <<caches, fetchEvents, puts, app>>

\* The fetch events of the previous worker whose respondWith has not
\* settled: the browser lets them finish before it activates this one.
InProgress(w) ==
    {i \in 1..Len(fetchEvents) :
        fetchEvents[i].worker = w /\ fetchEvents[i].stage \in {"match", "network"}}

\* activate: event.waitUntil(caches.keys() ...), up to keys.
Activate ==
    /\ worker.state = "installed"
    /\ worker.skipWaiting
    /\ InProgress("old") = {}
    /\ worker' = [worker EXCEPT !.state = "activating", !.at = "keys"]
    /\ UNCHANGED <<caches, fetchEvents, puts, app>>

\* caches.keys() is served: the names other than CACHE_VERSION are to be
\* deleted, each by a caches.delete of its own.
ActivateKeys ==
    /\ worker.state = "activating"
    /\ worker.at = "keys"
    /\ worker' = [worker EXCEPT
                    !.at = "delete",
                    !.cacheNames = {caches[i].name : i \in 1..Len(caches)}
                                      \ {CACHE_VERSION}]
    /\ UNCHANGED <<caches, fetchEvents, puts, app>>

\* One caches.delete(name) is served.
ActivateDelete ==
    /\ worker.state = "activating"
    /\ worker.at = "delete"
    /\ \E name \in worker.cacheNames :
          /\ caches' = CachesDelete(caches, name)
          /\ worker' = [worker EXCEPT !.cacheNames = @ \ {name}]
    /\ UNCHANGED <<fetchEvents, puts, app>>

\* Promise.all has resolved: .then(() => self.clients.claim()), and the
\* work of activate is complete.
ActivateClaim ==
    /\ worker.state = "activating"
    /\ worker.at = "delete"
    /\ worker.cacheNames = {}
    /\ worker' = [worker EXCEPT !.state = "activated", !.at = "done"]
    /\ UNCHANGED <<caches, fetchEvents, puts, app>>

\* The worker that gets the fetch events of the page: this one once it is
\* activated, the previous one, if there is one, until this one is being
\* activated; in between the events are held back.
Controller ==
    IF worker.state = "activated" THEN "new"
    ELSE IF worker.state # "activating" /\ worker.previous THEN "old"
    ELSE "none"

\* A fetch event, in the listener up to caches.match: a request that is not
\* a GET is left to the browser.
FetchEvent ==
    /\ Len(fetchEvents) < MaxFetches
    /\ Controller # "none"
    /\ \E method \in {"GET", "POST"}, url \in RequestUrls :
          fetchEvents' =
              Append(fetchEvents,
                     [worker |-> Controller, method |-> method, url |-> url,
                      stage |-> IF method # "GET" THEN "passed" ELSE "match",
                      cached |-> FALSE, from |-> NoMatch, contacted |-> FALSE,
                      status |-> 0])
    /\ UNCHANGED <<caches, worker, puts, app>>

\* caches.match(event.request) is served: a cached response is returned, or
\* fetch(event.request) is called.
FetchMatch ==
    /\ \E i \in 1..Len(fetchEvents) :
          /\ fetchEvents[i].stage = "match"
          /\ LET found == CachesMatch(caches, fetchEvents[i].url)
             IN  fetchEvents' =
                   [fetchEvents EXCEPT ![i] =
                      IF found # NoMatch
                      THEN [@ EXCEPT !.stage = "answered", !.from = found,
                                     !.cached = \E k \in 1..Len(caches) :
                                                   fetchEvents[i].url \in caches[k].urls]
                      ELSE [@ EXCEPT !.stage = "network",
                                     !.cached = \E k \in 1..Len(caches) :
                                                   fetchEvents[i].url \in caches[k].urls]]
    /\ UNCHANGED <<caches, worker, puts, app>>

\* The statuses of a network response; NetworkError is for a fetch that
\* rejects.
NetworkError == 0

Statuses == {200, 404, NetworkError}

\* fetch(event.request) settles: a response of status 200 is cloned and
\* caches.open(CACHE_VERSION).then(cache => cache.put(...)) is called,
\* which nothing waits for; the response is returned.
FetchNetwork ==
    /\ \E i \in 1..Len(fetchEvents), status \in Statuses :
          /\ fetchEvents[i].stage = "network"
          /\ fetchEvents' =
                [fetchEvents EXCEPT ![i] =
                    [@ EXCEPT !.stage = "answered", !.contacted = TRUE,
                              !.status = status,
                              !.from = IF status = NetworkError THEN "error"
                                       ELSE "network"]]
          /\ puts' = IF status = 200
                     THEN puts \cup {[cache |-> VersionOf(fetchEvents[i].worker),
                                      url |-> fetchEvents[i].url,
                                      status |-> status]}
                     ELSE puts
    /\ UNCHANGED <<caches, worker, app>>

\* A caches.open(...).then(cache => cache.put(...)) is served.
CachePut ==
    /\ \E p \in puts :
          /\ caches' = CachePutAll(CachesOpen(caches, p.cache), p.cache, {p.url})
          /\ puts' = puts \ {p}
    /\ UNCHANGED <<worker, fetchEvents, app>>

\* ------------------------------------------------------- specifications

\* ------------------------------------- the milestone revision (src/app.js)

\* MILESTONE_DEFINITIONS, each with its key and its days.
MILESTONE_DEFINITIONS ==
    <<[key |-> "7d",    days |-> 7],    [key |-> "14d",   days |-> 14],
      [key |-> "21d",   days |-> 21],   [key |-> "30d",   days |-> 30],
      [key |-> "50d",   days |-> 50],   [key |-> "60d",   days |-> 60],
      [key |-> "90d",   days |-> 90],   [key |-> "100d",  days |-> 100],
      [key |-> "180d",  days |-> 180],  [key |-> "200d",  days |-> 200],
      [key |-> "365d",  days |-> 365],  [key |-> "500d",  days |-> 500],
      [key |-> "730d",  days |-> 730],  [key |-> "1000d", days |-> 1000],
      [key |-> "1825d", days |-> 1825]>>

\* `custom_${days}` for the days the form is given here.
CustomKeys == (6 :> "custom_6") @@ (8 :> "custom_8")

\* key.startsWith('custom_')
StartsWithCustom(key) == key \in {CustomKeys[d] : d \in DOMAIN CustomKeys}

\* null for a milestone, and for the hidden overlay's key.
NoMilestone == [key |-> "", days |-> 0]

getPresetMilestoneByKey(key) ==
    LET found == {i \in 1..Len(MILESTONE_DEFINITIONS) :
                     MILESTONE_DEFINITIONS[i].key = key}
    IN  IF found = {} THEN NoMilestone
        ELSE MILESTONE_DEFINITIONS[CHOOSE i \in found : \A j \in found : i <= j]

resolveMilestone(key, t) ==
    LET preset == getPresetMilestoneByKey(key)
        found  == {i \in 1..Len(t.customMilestones) : t.customMilestones[i].key = key}
    IN  IF preset # NoMilestone THEN preset
        ELSE IF StartsWithCustom(key) /\ found # {}
        THEN LET custom == t.customMilestones[CHOOSE i \in found : \A j \in found : i <= j]
             IN  [key |-> custom.key, days |-> custom.days]
        ELSE NoMilestone

\* totalDays of getTimerValues: 0 for an expired span, else
\* Math.floor((toDate - fromDate) / (1000 * 60 * 60 * 24)).
totalDaysOf(t, now) ==
    IF DateLt(SpanTo(t, now), SpanFrom(t, now)) THEN 0
    ELSE DiffDaysFloor(SpanTo(t, now), SpanFrom(t, now))

\* The loop of checkMilestones from the i-th key: the milestone of the first
\* key not shown yet that resolves and should fire, NoMilestone if none.
RECURSIVE checkFrom(_, _, _, _)
checkFrom(allKeys, i, t, totalDays) ==
    IF i > Len(allKeys) THEN NoMilestone
    ELSE LET key == allKeys[i]
             def == resolveMilestone(key, t)
             shouldFire == IF t.mode = "countup" THEN totalDays >= def.days
                           ELSE totalDays <= def.days
         IN  IF \E k \in 1..Len(t.shownMilestones) : t.shownMilestones[k] = key
             THEN checkFrom(allKeys, i + 1, t, totalDays)
             ELSE IF def = NoMilestone
             THEN checkFrom(allKeys, i + 1, t, totalDays)
             ELSE IF shouldFire THEN def
             ELSE checkFrom(allKeys, i + 1, t, totalDays)

\* [...milestoneKeys, ...customMilestones.map(m => m.key)]
allKeysOf(t) ==
    t.milestoneKeys \o [i \in 1..Len(t.customMilestones) |-> t.customMilestones[i].key]

\* Variant of checkMilestones: the overlay is not looked at.
checkMilestonesWhileOpen(t, totalDays, overlay) ==
    IF totalDays = 0 THEN NoMilestone
    ELSE checkFrom(allKeysOf(t), 1, t, totalDays)

\* checkMilestones: the milestone it gives to showMilestoneOverlay, having
\* appended its key to shownMilestones; NoMilestone when it returns before.
checkMilestones(t, totalDays, overlay) ==
    IF overlay # NoMilestone.key THEN NoMilestone
    ELSE IF totalDays = 0 THEN NoMilestone
    ELSE checkFrom(allKeysOf(t), 1, t, totalDays)

\* null for the active message.  The result's milestoneName, the badge and
\* the label of the milestone, is kept as the milestone's key.
NoMilestoneMessage == [text |-> "", daysUntil |-> 0, milestoneName |-> ""]

\* The loop of getActiveMessage from the i-th message.  bestDaysUntil is
\* Infinity exactly while best is null.
RECURSIVE activeFrom(_, _, _, _)
activeFrom(best, i, t, totalDays) ==
    IF i > Len(t.messages) THEN best
    ELSE LET msg == t.messages[i]
             def == resolveMilestone(msg.milestoneKey, t)
             difference == IF t.mode = "countup" THEN def.days - totalDays
                           ELSE totalDays - def.days
             daysUntil == IF t.mode # "countup" /\ difference < 0 THEN 0
                          ELSE difference
             inWindow  == daysUntil >= 0 /\ daysUntil <= msg.daysBefore
         IN  IF msg.text = "" \/ msg.milestoneKey = ""
             THEN activeFrom(best, i + 1, t, totalDays)
             ELSE IF def = NoMilestone
             THEN activeFrom(best, i + 1, t, totalDays)
             ELSE IF inWindow /\ (best = NoMilestoneMessage \/ daysUntil < best.daysUntil)
             THEN activeFrom([text |-> msg.text, daysUntil |-> daysUntil,
                              milestoneName |-> def.key], i + 1, t, totalDays)
             ELSE activeFrom(best, i + 1, t, totalDays)

\* getActiveMessage of the milestone revision.
getActiveMilestoneMessage(t, totalDays) ==
    IF Len(t.messages) = 0 THEN NoMilestoneMessage
    ELSE activeFrom(NoMilestoneMessage, 1, t, totalDays)

\* What the handlers of the milestone revision leave alone.
current ==
    <<appState, currentScreen, tickerHandle, intervals, sliderPosition,
      rendered, reads, vals, disp, detailMessage, formState, page, workerState>>

\* updateDetailDisplay of the milestone revision, the clock read as n:
\* getTimerValues, checkMilestones, which may show the overlay, then
\* updateDetailMessage.
refreshMilestones(t, n) ==
    LET totalDays == totalDaysOf(t, n)
        def       == checkMilestones(t, totalDays, milestoneOverlay)
        after     == IF def = NoMilestone THEN t
                     ELSE [t EXCEPT !.shownMilestones = Append(@, def.key)]
    IN  /\ clock' = n
        /\ milestoneTimer' = after
        /\ milestoneOverlay' = IF def = NoMilestone THEN milestoneOverlay ELSE def.key
        /\ shownLog' = IF def = NoMilestone THEN shownLog ELSE Append(shownLog, def.key)
        /\ milestoneDetail' =
              [totalDays |-> totalDays,
               message   |-> getActiveMilestoneMessage(after, totalDays)]

\* The interval of startTicker fires on the detail screen.
MilestoneTick ==
    /\ milestoneScreen = "detail"
    /\ \E n \in Later(clock) : refreshMilestones(milestoneTimer, n)
    /\ UNCHANGED <<milestoneScreen, current>>

\* A click on the overlay or on its button.
closeMilestoneOverlay ==
    /\ milestoneOverlay # NoMilestone.key
    /\ milestoneOverlay' = NoMilestone.key
    /\ UNCHANGED <<milestoneTimer, milestoneScreen, milestoneDetail, shownLog,
                   clock, current>>

\* btn-edit-timer: openFormScreen(activeTimerId); showScreen('form') stops
\* the ticker.
MilestoneEditClick ==
    /\ milestoneScreen = "detail"
    /\ milestoneScreen' = "form"
    /\ UNCHANGED <<milestoneTimer, milestoneOverlay, milestoneDetail, shownLog,
                   clock, current>>

\* The days the timers of the milestone revision are anchored on: a week
\* before the end of the window, and six days after it.
MilestoneDates == {DateStrOfDay(MaxDay - 7), DateStrOfDay(MaxDay + 6)}

\* Messages as addMessageToForm builds them, and as an import may have left
\* them: without text, or tied to a custom milestone the timer has not.
MilestoneMessageLists ==
    {<<>>,
     <<[text |-> "A", daysBefore |-> 2, milestoneKey |-> "7d"],
       [text |-> "B", daysBefore |-> 1, milestoneKey |-> CustomKeys[6]]>>,
     <<[text |-> "",  daysBefore |-> 2, milestoneKey |-> "7d"],
       [text |-> "C", daysBefore |-> 2, milestoneKey |-> CustomKeys[8]],
       [text |-> "D", daysBefore |-> 1, milestoneKey |-> "7d"]>>}

\* What readFormValues may return.
MilestoneFormValues ==
    [date : MilestoneDates, mode : {"countup", "countdown"},
     milestoneKeys : {<<>>, <<"7d">>},
     customMilestones : {<<>>, <<[key |-> CustomKeys[6], days |-> 6]>>},
     messages : MilestoneMessageLists]

\* handleFormSubmit of the milestone revision on an edit, up to its await
\* (the timer has a built-in wallpaper: deletePhoto is awaited).
MilestoneFormSubmit ==
    /\ milestoneScreen = "form"
    /\ \E values \in MilestoneFormValues :
          LET existing    == milestoneTimer
              dateChanged == existing.date # values.date
          IN  /\ milestoneTimer' =
                    [date |-> values.date, mode |-> values.mode,
                     milestoneKeys |-> values.milestoneKeys,
                     customMilestones |-> values.customMilestones,
                     messages |-> values.messages,
                     shownMilestones |-> IF dateChanged THEN <<>>
                                         ELSE existing.shownMilestones]
              /\ shownLog' = IF dateChanged THEN <<>> ELSE shownLog
    /\ milestoneScreen' = "saving"
    /\ UNCHANGED <<milestoneOverlay, milestoneDetail, clock, current>>

\* ... and from its await on: saveState, renderTimerList, openDetailScreen,
\* which refreshes the display and starts the ticker.
MilestoneFormSubmitResume ==
    /\ milestoneScreen = "saving"
    /\ milestoneScreen' = "detail"
    /\ \E n \in Later(clock) : refreshMilestones(milestoneTimer, n)
    /\ UNCHANGED current

\* The milestone revision is not running.
InitRevision ==
    /\ milestoneTimer = [date |-> NoDateStr, mode |-> "countdown",
                         milestoneKeys |-> <<>>, customMilestones |-> <<>>,
                         messages |-> <<>>, shownMilestones |-> <<>>]
    /\ milestoneScreen = "list"
    /\ milestoneOverlay = NoMilestone.key
    /\ milestoneDetail = [totalDays |-> 0, message |-> NoMilestoneMessage]
    /\ shownLog = <<>>

\* The worker of sw.js as the browser has parsed it, before install; a
\* previous worker, if there was one, has left its cache.
InitWorker(previous) ==
    /\ caches = IF previous
                THEN <<[name |-> PreviousVersion, urls |-> PRECACHE_URLS]>>
                ELSE <<>>
    /\ worker = [state |-> "parsed", at |-> "start", skipWaiting |-> FALSE,
                 failed |-> {}, cacheNames |-> {}, previous |-> previous]
    /\ fetchEvents = <<>>
    /\ puts = {}

\* The page has been loaded, in a browser with service workers.
InitOutside ==
    /\ page = Loaded(TRUE)
    /\ InitWorker(FALSE)
    /\ InitRevision

InitDisplay ==
    /\ sliderPosition = 0
    /\ rendered = FALSE
    /\ reads = [values |-> clock, slider |-> clock, message |-> clock]
    /\ vals = ExpiredVals
    /\ disp = Disp(0, 0, 0, 0)
    /\ detailMessage = NoMessage

\* The app as it starts, on the list: no ticker, no form opened, no handler
\* under way.
InitScreens ==
    /\ currentScreen = "list"
    /\ tickerHandle = Null
    /\ intervals = {}
    /\ editingTimerId = Null
    /\ formMessages = <<>>
    /\ pending = <<>>
    /\ photos = {}
    /\ formWallpaperSelection = "none"
    /\ formPendingPhotoBlob = FALSE
    /\ formPendingPhotoTransform = Null

\* The decomposer: one stored timer, of every anchor and mode, the clock
\* anywhere in the window.
Init ==
    /\ \E t \in Timers : appState = [timers |-> <<t>>, activeTimerId |-> Null]
    /\ nextId = 2
    /\ clock \in {DateOfDay(n, t) : n \in 0..MaxDay, t \in TimesOfDay}
    /\ InitScreens
    /\ InitDisplay
    /\ InitOutside

\* The timer is opened from the list, the slider is moved, the ticker fires.
Next == ListClick \/ SliderInput \/ Tick

Spec == Init /\ [][Next]_vars

\* The resolver: one stored timer with every list of messages, the clock
\* around the trigger days.
InitMsg ==
    /\ \E t \in [id : {1}, date : {<<2024, 2, 1>>}, mode : {"countup"},
                 messages : MessageLists, wallpaper : {"none"},
                 photoTransform : {Null}] :
          appState = [timers |-> <<t>>, activeTimerId |-> Null]
    /\ nextId = 2
    /\ clock \in {DateOfDay(n, t) : n \in (TriggerDay1 - 1)..MaxDay, t \in TimesOfDay}
    /\ InitScreens
    /\ InitDisplay
    /\ InitOutside

\* The timer is opened from the list and the ticker refreshes the screen.
NextMsg == ListClick \/ Tick

SpecMsg == InitMsg /\ [][NextMsg]_vars

\* The borrow at the end of a month, with the dates of early 2023: a
\* count-up from 31 January and a countdown to 1 March, the clock anywhere
\* from 30 January to 2 March 2023.
TimersBorrow ==
    {[id |-> 1, date |-> <<2023, 1, 31>>, mode |-> "countup",   messages |-> <<>>,
      wallpaper |-> "none", photoTransform |-> Null],
     [id |-> 1, date |-> <<2023, 3, 1>>,  mode |-> "countdown", messages |-> <<>>,
      wallpaper |-> "none", photoTransform |-> Null]}

InitBorrow ==
    /\ \E t \in TimersBorrow : appState = [timers |-> <<t>>, activeTimerId |-> Null]
    /\ nextId = 2
    /\ clock \in {DateOfDay(n, t) :
                    n \in DayNumber(MkDate(2023, 0, 30, 0))..DayNumber(MkDate(2023, 2, 2, 0)),
                    t \in TimesOfDay}
    /\ InitScreens
    /\ InitDisplay
    /\ InitOutside

\* The timer is opened from the list at any instant of these days.
NextBorrow == ListClick

SpecBorrow == InitBorrow /\ [][NextBorrow]_vars

\* The app from its empty state (no stored timer), the clock at the end of
\* the window.
InitApp ==
    /\ appState = [timers |-> <<>>, activeTimerId |-> Null]
    /\ nextId = 1
    /\ clock = LastInstant
    /\ InitScreens
    /\ InitDisplay
    /\ InitOutside

\* Navigation: the three screens, the slider, the ticker, and the two async
\* handlers of the form with their awaits.
NextNav ==
    \/ ListClick
    \/ BackClick
    \/ NewTimerClick
    \/ EditClick
    \/ CancelClick
    \/ handleFormSubmit
    \/ handleFormSubmitResume
    \/ deleteTimer
    \/ deleteTimerResume
    \/ SliderInput
    \/ Tick

SpecNav == InitApp /\ [][NextNav]_vars

\* The form: timers are made and edited, messages added and removed.
NextForm ==
    \/ NewTimerClick
    \/ EditClick
    \/ BackClick
    \/ addMessageToForm
    \/ RemoveMessage
    \/ handleFormSubmit
    \/ handleFormSubmitResume

SpecForm == InitApp /\ [][NextForm]_vars

\* The photos: timers are made, edited and deleted, photos chosen, cropped
\* and removed in the form.
NextPhoto ==
    \/ ListClick
    \/ NewTimerClick
    \/ EditClick
    \/ CancelClick
    \/ ChoosePhoto
    \/ RemovePhoto
    \/ donePhotoEditor
    \/ handleFormSubmit
    \/ handleFormSubmitResume
    \/ deleteTimer
    \/ deleteTimerResume

SpecPhoto == InitApp /\ [][NextPhoto]_vars

\* The service worker of sw.js from its install on, with or without a
\* worker of the previous version active before it, and the requests of the
\* page.
InitServiceWorker ==
    /\ appState = [timers |-> <<>>, activeTimerId |-> Null]
    /\ nextId = 1
    /\ clock = LastInstant
    /\ InitScreens
    /\ InitDisplay
    /\ page = Loaded(TRUE)
    /\ \E previous \in BOOLEAN : InitWorker(previous)
    /\ InitRevision

NextServiceWorker ==
    \/ Install
    \/ InstallOpened
    \/ InstallAddAll
    \/ InstallSkipWaiting
    \/ Activate
    \/ ActivateKeys
    \/ ActivateDelete
    \/ ActivateClaim
    \/ FetchEvent
    \/ FetchMatch
    \/ FetchNetwork
    \/ CachePut

SpecServiceWorker == InitServiceWorker /\ [][NextServiceWorker]_vars

\* The app from the load of its page, in a browser with or without service
\* workers: the startup handler, then what the listeners it added do.
InitStartup ==
    /\ appState = [timers |-> <<>>, activeTimerId |-> Null]
    /\ nextId = 1
    /\ clock = LastInstant
    /\ InitScreens
    /\ InitDisplay
    /\ page \in {Loading(sw) : sw \in BOOLEAN}
    /\ InitWorker(FALSE)
    /\ InitRevision

NextStartup == DOMContentLoaded \/ NextNav

SpecStartup == InitStartup /\ [][NextStartup]_vars

\* The milestone revision: a timer just made with the form, whose submit is
\* at its await, the clock in the last days of the window; then the ticker,
\* the overlay's close and edits with the form.
MilestoneDays == 2

InitMilestones ==
    /\ appState = [timers |-> <<>>, activeTimerId |-> Null]
    /\ nextId = 1
    /\ clock \in {DateOfDay(n, 0) : n \in (MaxDay - MilestoneDays)..MaxDay}
    /\ InitScreens
    /\ InitDisplay
    /\ page = Loaded(TRUE)
    /\ InitWorker(FALSE)
    /\ \E values \in MilestoneFormValues :
          milestoneTimer = [date |-> values.date, mode |-> values.mode,
                            milestoneKeys |-> values.milestoneKeys,
                            customMilestones |-> values.customMilestones,
                            messages |-> values.messages,
                            shownMilestones |-> <<>>]
    /\ milestoneScreen = "saving"
    /\ milestoneOverlay = NoMilestone.key
    /\ milestoneDetail = [totalDays |-> 0, message |-> NoMilestoneMessage]
    /\ shownLog = <<>>

NextMilestones ==
    \/ MilestoneTick
    \/ closeMilestoneOverlay
    \/ MilestoneEditClick
    \/ MilestoneFormSubmit
    \/ MilestoneFormSubmitResume

SpecMilestones == InitMilestones /\ [][NextMilestones]_vars

\* The decomposer with the ticker's schedule: setInterval fires the refresh
\* again and again for as long as an interval lives, and time passes.
\* The days up to the end of the window; 1 March 2025 is among them.
LastDays == 8

InitTicking ==
    /\ \E t \in Timers : appState = [timers |-> <<t>>, activeTimerId |-> Null]
    /\ nextId = 2
    /\ clock \in {DateOfDay(n, t) : n \in (MaxDay - LastDays)..MaxDay, t \in TimesOfDay}
    /\ InitScreens
    /\ InitDisplay
    /\ InitOutside

\* The schedule of setInterval as a step: while an interval lives, a refresh
\* comes that reads the clock an instant on.
TickerFires ==
    /\ intervals # {}
    /\ clock # LastInstant
    /\ clock' = NextInstant(clock)

SpecTicking == InitTicking /\ [][Next]_vars /\ WF_clock(TickerFires)

\* ------------------------------------------------ the message resolver

\* The messages of the active timer.
Msgs == timer.messages

\* A message is well-formed when it has a text and a trigger date that
\* parses.
WellFormed(msg) == msg.text # "" /\ ParseDate(msg.triggerDate).valid

\* The local day the last refresh took for today.
Today == reads.message.day

\* Whole days from today to the trigger date of a well-formed message.
DaysUntil(msg) == ParseDate(msg.triggerDate).day - Today

\* A message is active when it is well-formed and its trigger date is today
\* or earlier.
Active(msg) == WellFormed(msg) /\ DaysUntil(msg) <= 0

ActiveIndices == {i \in 1..Len(Msgs) : Active(Msgs[i])}

\* The active messages triggered most recently.
MostRecentIndices ==
    {i \in ActiveIndices :
        \A j \in ActiveIndices : DaysUntil(Msgs[j]) <= DaysUntil(Msgs[i])}

Min(S) == CHOOSE x \in S : \A y \in S : x <= y

\* The result getActiveMessage builds from message msg.
ResultOf(msg) ==
    [found |-> TRUE, text |-> msg.text, daysUntil |-> DaysUntil(msg),
     triggerLabel |-> formatDate(msg.triggerDate)]

\* C1: whenever some message is active, the refresh shows an active message
\* with the largest daysUntil, the one triggered most recently.
C1_MostRecentlyTriggeredWins ==
    (rendered /\ ActiveIndices # {}) =>
        /\ detailMessage.found
        /\ \A i \in ActiveIndices : DaysUntil(Msgs[i]) <= detailMessage.daysUntil

\* C2: when several active messages share the most recent trigger date, the
\* refresh shows the one of them that comes first in the timer's messages.
C2_FirstOfTheMostRecentWins ==
    (rendered /\ Cardinality(MostRecentIndices) >= 2) =>
        detailMessage = ResultOf(Msgs[Min(MostRecentIndices)])

\* C3: the refresh shows no message exactly when no message is active.
C3_NoneIffNoActiveMessage ==
    rendered => (detailMessage.found <=> ActiveIndices # {})

\* C3 witness: a refresh of a timer with two or more well-formed messages,
\* all still to come, shows none.
C3_Witness ==
    /\ rendered
    /\ Len(Msgs) >= 2
    /\ \A i \in 1..Len(Msgs) : WellFormed(Msgs[i]) /\ DaysUntil(Msgs[i]) > 0
    /\ ~detailMessage.found

\* C4: with the timer unchanged and the clock only moving on, a refresh that
\* follows a refresh showing a message shows a message too.
C4_NoExpiry ==
    [][(rendered /\ detailMessage.found /\ timer' = timer
          /\ ~DateLt(clock', clock))
        => detailMessage'.found]_vars

\* C4 witness: a refresh on a day after the trigger date of the timer's only
\* well-formed message still shows it.
C4_Witness ==
    /\ rendered
    /\ detailMessage.found
    /\ detailMessage.daysUntil < 0
    /\ Cardinality({i \in 1..Len(Msgs) : WellFormed(Msgs[i])}) = 1

\* C5: a malformed message is never shown, and the refresh shows what it
\* would show with the malformed messages taken out of the list.
C5_MalformedMessagesSkipped ==
    rendered =>
        /\ detailMessage =
             getActiveMessage([timer EXCEPT !.messages = SelectSeq(Msgs, WellFormed)],
                              reads.message)
        /\ detailMessage.found =>
             \E i \in 1..Len(Msgs) :
                 WellFormed(Msgs[i]) /\ detailMessage = ResultOf(Msgs[i])

\* C5 witness: a malformed message stands first in the list, on a trigger
\* date that has come, and the refresh shows a well-formed message after it.
C5_Witness ==
    /\ rendered
    /\ Len(Msgs) >= 2
    /\ ~WellFormed(Msgs[1])
    /\ Msgs[1].text = ""
    /\ ParseDate(Msgs[1].triggerDate).day <= Today
    /\ detailMessage.found

\* --------------------------------------------------- the decomposer

\* The clock as getTimerValues read it in the last refresh, the anchor at
\* midnight, and the two ends of the span by the timer's mode.
Now == reads.values

Anchor == ParseDate(timer.date)

FromDate == IF timer.mode = "countup" THEN Anchor ELSE Now

ToDate == IF timer.mode = "countup" THEN Now ELSE Anchor

\* a is an earlier instant than b.
Before(a, b) ==
    /\ a.valid
    /\ b.valid
    /\ (a.day < b.day \/ (a.day = b.day /\ a.ms < b.ms))

AllZero(v) ==
    /\ v.years = 0
    /\ v.months = 0
    /\ v.weeks = 0
    /\ v.days = 0
    /\ v.totalDays = 0
    /\ ~v.nan

\* The breakdown of the last refresh is one of a span that has not expired
\* and whose ends are both dates.
Counting == rendered /\ ~vals.isExpired /\ ~vals.nan

\* C6: the breakdown is expired exactly when toDate is before fromDate; an
\* expired breakdown is all zero, and applySlider makes all zero of it at
\* every position of the slider.
C6_ExpiredIffToBeforeFrom ==
    rendered =>
        /\ vals.isExpired <=> Before(ToDate, FromDate)
        /\ vals.isExpired =>
             /\ AllZero(vals)
             /\ disp = Disp(0, 0, 0, 0)
             /\ \A p \in 0..3 : applySlider(vals, p, timer, clock) = Disp(0, 0, 0, 0)

\* C6 witness: a countdown whose date has passed, shown with the slider at
\* Months.
C6_Witness ==
    /\ rendered
    /\ timer.mode = "countdown"
    /\ Before(Anchor, Now)
    /\ vals.isExpired
    /\ sliderPosition = 1

C8_DisplayedFieldsNonNegative ==
    (rendered /\ Anchor.valid) =>
        /\ ~disp.nan
        /\ disp.dispYears >= 0
        /\ disp.dispMonths >= 0
        /\ disp.dispWeeks >= 0
        /\ disp.dispDays >= 0

\* C9: of a span that has not expired, the years after the anniversary
\* correction and the months after the borrow are never below 0, in
\* getTimerValues and with the slider at Months.
C9_YearsAndMonthsNotNegative ==
    Counting =>
        /\ vals.years >= 0
        /\ vals.months >= 0
        /\ (sliderPosition = 1 /\ ~disp.nan) =>
             (disp.dispYears >= 0 /\ disp.dispMonths >= 0)

\* C9 witness: the anniversary correction has acted on a span shorter than
\* a year that crosses the new year, and the years are 0.
C9_Witness ==
    /\ Counting
    /\ ToDate.y = FromDate.y + 1
    /\ vals.years = 0
    /\ vals.months > 0
    /\ sliderPosition = 1

\* C10: of a span that has not expired, years is the largest k >= 0 such
\* that fromDate moved on by k calendar years is not after toDate.
C10_WholeYearsElapsed ==
    Counting =>
        /\ vals.years >= 0
        /\ ~Before(ToDate, setFullYear(FromDate, FromDate.y + vals.years))
        /\ Before(ToDate, setFullYear(FromDate, FromDate.y + vals.years + 1))

\* C10 witness: a count-up from 1 February, read on 31 January of the next
\* year, has 0 years yet.
C10_Witness ==
    /\ Counting
    /\ timer.mode = "countup"
    /\ timer.date = <<2024, 2, 1>>
    /\ Now.y = 2025 /\ Now.m = 0 /\ Now.d = 31
    /\ vals.years = 0

\* C11: a count-up from the leap day 2024-02-29 read on 2025-03-01 with the
\* slider at Years shows 1 year, 0 months, 0 weeks and 1 day.
C11_LeapDayAnchor ==
    (/\ rendered
     /\ timer.mode = "countup"
     /\ timer.date = <<2024, 2, 29>>
     /\ Now.y = 2025 /\ Now.m = 2 /\ Now.d = 1
     /\ sliderPosition = 0) =>
        /\ vals.years = 1
        /\ vals.months = 0
        /\ vals.weeks = 0
        /\ vals.days = 1
        /\ disp = Disp(1, 0, 0, 1)

\* C12: the span from 2023-01-31 to 2023-03-01, in either mode, has 1 month
\* and a remainder of weeks and days that is not negative.
C12_MonthEndBorrow ==
    (/\ rendered
     /\ FromDate.valid /\ FromDate.y = 2023 /\ FromDate.m = 0 /\ FromDate.d = 31
     /\ ToDate.valid /\ ToDate.y = 2023 /\ ToDate.m = 2 /\ ToDate.d = 1
     /\ ~vals.isExpired) =>
        /\ vals.months = 1
        /\ vals.weeks >= 0
        /\ vals.days >= 0

\* dt moved on by k days of MsPerDay.
AddDays(dt, k) == [dt EXCEPT !.day = @ + k]

\* k is the number of whole days from FromDate to ToDate: the largest k such
\* that FromDate moved on by k days is not after ToDate.
WholeDays(k) ==
    /\ k >= 0
    /\ ~Before(ToDate, AddDays(FromDate, k))
    /\ Before(ToDate, AddDays(FromDate, k + 1))

\* C13: of a span that has not expired, totalDays is the number of whole
\* days; position 3 of the slider shows 0 years, 0 months, 0 weeks and
\* totalDays days; position 2 shows 0 years, 0 months, and weeks and days
\* with 7 * weeks + days = totalDays and days in 0..6.
C13_PivotsAgreeWithTotalDays ==
    Counting =>
        LET days3  == applySlider(vals, 3, timer, Now)
            weeks2 == applySlider(vals, 2, timer, Now)
        IN  /\ WholeDays(vals.totalDays)
            /\ days3 = Disp(0, 0, 0, vals.totalDays)
            /\ weeks2.dispYears = 0
            /\ weeks2.dispMonths = 0
            /\ ~weeks2.nan
            /\ 7 * weeks2.dispWeeks + weeks2.dispDays = vals.totalDays
            /\ weeks2.dispDays \in 0..6
            /\ sliderPosition = 3 => disp = days3
            /\ sliderPosition = 2 => disp = weeks2

\* C13 witness: a span of more than a year and some months, shown with the
\* slider at Weeks, with days left over.
C13_Witness ==
    /\ Counting
    /\ sliderPosition = 2
    /\ vals.years >= 1
    /\ vals.months >= 1
    /\ disp.dispWeeks > 52
    /\ disp.dispDays > 0

\* dt moved on by k calendar months, on the last day of the month when the
\* month reached lacks the day of dt.
AddMonthsClamped(dt, k) ==
    LET yy == dt.y + ((dt.m + k) \div 12)
        mm == (dt.m + k) % 12
        dm == DaysInMonth(yy, mm)
    IN  MkDate(yy, mm, IF dt.d <= dm THEN dt.d ELSE dm, dt.ms)

\* The two ends of the span as the branch for position 1 took them.
SliderFrom == IF timer.mode = "countup" THEN Anchor ELSE reads.slider

SliderTo == IF timer.mode = "countup" THEN reads.slider ELSE Anchor

\* dt moved on by k calendar months as setMonth does it, a day the month
\* reached lacks carried into the following month.
AddMonthsCarried(dt, k) == setMonth(dt, getMonth(dt) + k)

\* What position 1 shows is right by the reading Add of "moved on by m
\* months": 0 years; months the largest m such that from moved on by m
\* months is not after to; weeks and days the whole days left from there,
\* divided by 7 and modulo 7.
PivotMonthsBy(Add(_, _)) ==
    LET reached == Add(SliderFrom, disp.dispMonths)
        rem     == DiffDaysFloor(SliderTo, reached)
    IN  /\ disp.dispYears = 0
        /\ disp.dispMonths >= 0
        /\ ~Before(SliderTo, reached)
        /\ Before(SliderTo, Add(SliderFrom, disp.dispMonths + 1))
        /\ rem >= 0
        /\ disp.dispWeeks = rem \div 7
        /\ disp.dispDays = rem % 7

\* C14: with the slider at Months, of a span that has not expired, the
\* display is 0 years, the whole calendar months from the original from to
\* to, and the whole days left as weeks and days, by one of the two readings
\* of a month's end.
C14_PivotMonths ==
    (Counting /\ sliderPosition = 1 /\ ~disp.nan /\ ~Before(SliderTo, SliderFrom)) =>
        PivotMonthsBy(AddMonthsClamped) \/ PivotMonthsBy(AddMonthsCarried)

C16_MalformedAnchorIsExpired ==
    (rendered /\ ~Anchor.valid) =>
        /\ vals.isExpired
        /\ AllZero(vals)
        /\ ~disp.nan

\* C17: a refresh takes one reading of the clock: the breakdown, the
\* slider's collapse and the message are all computed from the now of
\* getTimerValues.
C17_OneClockPerRefresh ==
    rendered =>
        /\ reads.slider = reads.values
        /\ reads.message = reads.values
        /\ vals = getTimerValues(timer, reads.values)
        /\ disp = applySlider(vals, sliderPosition, timer, reads.values)
        /\ detailMessage = getActiveMessage(timer, reads.values)

\* ------------------------------------------------- screens and the form

\* The detail screen shows a timer that is stored.
DetailOfTimer ==
    /\ currentScreen = "detail"
    /\ HasTimer(appState.timers, appState.activeTimerId)

\* C18: every step that brings up the detail view of a stored timer, from
\* another screen or for another timer, leaves the slider at 0, and the
\* display it leaves is the one of position 0.
C18_SliderResetOnOpen ==
    [][(/\ DetailOfTimer'
        /\ \/ currentScreen # "detail"
           \/ appState'.activeTimerId # appState.activeTimerId)
       => /\ sliderPosition' = 0
          /\ rendered'
          /\ disp' = applySlider(vals', 0, timer', reads'.slider)]_vars

\* C18 witness: the detail view of a stored timer has been brought up again
\* from the form that edited it, while a handler was still suspended, and
\* the slider is at 0.
C18_Witness ==
    /\ DetailOfTimer
    /\ editingTimerId = appState.activeTimerId
    /\ Len(pending) >= 1
    /\ sliderPosition = 0
    /\ disp = applySlider(vals, 0, timer, reads.slider)

\* C19: the browser holds at most one interval, the one tickerHandle names,
\* and only while the detail screen is shown; on the list and on the form
\* tickerHandle is null.
C19_OneTickerOnDetailOnly ==
    /\ Cardinality(intervals) <= 1
    /\ intervals # {} => (currentScreen = "detail" /\ intervals = {tickerHandle})
    /\ currentScreen \in {"list", "form"} => tickerHandle = Null
    /\ tickerHandle # Null => tickerHandle \in intervals

\* C19 witness: the detail screen is shown with its one interval while a
\* handler is suspended at its await.
C19_Witness ==
    /\ currentScreen = "detail"
    /\ tickerHandle # Null
    /\ intervals = {tickerHandle}
    /\ Len(pending) >= 1

\* C20: the form's list and the messages of every stored timer are never
\* more than MessageLimit; and while the form is shown with MessageLimit
\* messages, no step makes another list of that length or a longer one.
C20_AtMostFiveMessages ==
    /\ [](/\ Len(formMessages) <= MessageLimit
          /\ \A i \in 1..Len(appState.timers) :
                Len(appState.timers[i].messages) <= MessageLimit)
    /\ [][(currentScreen = "form" /\ Len(formMessages) = MessageLimit)
          => (formMessages' = formMessages \/ Len(formMessages') < MessageLimit)]_vars

\* C20 witness: the form is open on a timer stored with MessageLimit
\* messages, and its list holds as many.
C20_Witness ==
    /\ currentScreen = "form"
    /\ Len(formMessages) = MessageLimit
    /\ \E i \in 1..Len(appState.timers) :
          /\ appState.timers[i].id = editingTimerId
          /\ Len(appState.timers[i].messages) = MessageLimit

\* C28: of a span that has not expired, the breakdown has its months in
\* 0..11, its weeks in 0..4 and its days in 0..6: no coarser unit is left
\* un-carried.
C28_UnitRanges ==
    (Counting /\ Anchor.valid) =>
        /\ vals.months \in 0..11
        /\ vals.weeks \in 0..4
        /\ vals.days \in 0..6

\* C29: with the timer fixed and the clock only moving on, from one refresh
\* to the next: counting down, totalDays does not grow and an expired timer
\* stays expired; counting up, a timer that is not expired stays so and its
\* totalDays does not shrink.  And while the ticker runs, a timer counting
\* down comes to be expired.
C29_ProgressOverTime ==
    /\ [][(rendered /\ rendered' /\ Anchor.valid /\ timer' = timer) =>
            IF timer.mode = "countdown"
            THEN /\ vals'.totalDays <= vals.totalDays
                 /\ vals.isExpired => vals'.isExpired
            ELSE ~vals.isExpired =>
                    /\ ~vals'.isExpired
                    /\ vals'.totalDays >= vals.totalDays]_vars
    /\ (intervals # {} /\ Anchor.valid /\ timer.mode = "countdown")
          ~> (rendered /\ vals.isExpired)

\* A timer counting down was shown with days to go, the clock has moved on
\* to a later day, and the refresh shows it expired.
C29_Witness ==
    /\ rendered
    /\ Anchor.valid
    /\ timer.mode = "countdown"
    /\ vals.isExpired
    /\ intervals # {}
    /\ Now.day > Anchor.day

\* C30: the startup handler does not end before its last step: once
\* DOMContentLoaded has been handled in a browser with service workers, the
\* registration of the service worker has been asked for.
C30_RegistrationReached ==
    (page.loaded /\ page.serviceWorker) => page.registered

\* The ids given out whose timer is no longer stored: a timer leaves
\* appState.timers only as deleteTimer completes.
Deleted == {id \in 1..(nextId - 1) : ~HasTimer(appState.timers, id)}

\* C24: as a confirmed deleteTimer completes, no timer is stored under the id
\* it was called for and no photo under that key; and no photo is stored
\* under the id of a deleted timer afterwards, whatever handleFormSubmit was
\* under way.
C24_DeleteCleansUpPhoto ==
    [][/\ (/\ pending # <<>>
           /\ Head(pending).fn = "deleteTimer"
           /\ pending' = Tail(pending)) =>
              /\ Head(pending).savedId \notin photos'
              /\ ~HasTimer(appState'.timers, Head(pending).savedId)
       /\ \A id \in Deleted' : id \notin photos']_vars

\* C25: when the form is submitted with a photo chosen since it was opened
\* and no crop made of it in the editor since, the timer saved has
\* photoTransform null, be it new or edited.
C25_NewPhotoResetsCrop ==
    [][(/\ currentScreen = "form"
        /\ formPendingPhotoBlob
        /\ formWallpaperSelection = "photo"
        /\ formPendingPhotoTransform = Null
        /\ Len(pending') = Len(pending) + 1
        /\ pending'[Len(pending')].fn = "handleFormSubmit") =>
           find(appState'.timers, pending'[Len(pending')].savedId).photoTransform
               = Null]_vars

\* ------------------------------------------------- the service worker

\* The fetch events so far whose request was a GET and whose listener has
\* answered.
Answered ==
    {i \in 1..Len(fetchEvents) :
        fetchEvents[i].method = "GET" /\ fetchEvents[i].stage = "answered"}

\* A GET whose network response had status 200, for url, in a worker whose
\* cache is name.
FetchedOk(url, name) ==
    \E i \in 1..Len(fetchEvents) :
        /\ fetchEvents[i].method = "GET"
        /\ fetchEvents[i].url = url
        /\ fetchEvents[i].contacted
        /\ fetchEvents[i].status = 200
        /\ VersionOf(fetchEvents[i].worker) = name

\* C21: a GET for which some cache held a response when it was looked up is
\* answered from a cache and the network is not contacted; any other GET is
\* answered by the network; only a response of status 200 to a GET is put,
\* and into the cache of the worker's version; a request that is not a GET
\* is left alone.
C21_CacheFirst ==
    /\ \A i \in Answered :
          IF fetchEvents[i].cached
          THEN /\ ~fetchEvents[i].contacted
               /\ fetchEvents[i].from \notin {NoMatch, "network", "error"}
          ELSE /\ fetchEvents[i].contacted
               /\ fetchEvents[i].from \in {"network", "error"}
    /\ \A i \in 1..Len(fetchEvents) :
          fetchEvents[i].method # "GET" =>
              /\ fetchEvents[i].stage = "passed"
              /\ ~fetchEvents[i].contacted
              /\ fetchEvents[i].from = NoMatch
    /\ \A p \in puts : p.status = 200 /\ FetchedOk(p.url, p.cache)
    /\ \A k \in 1..Len(caches) :
          \A url \in caches[k].urls :
              url \in PRECACHE_URLS \/ FetchedOk(url, caches[k].name)

\* One GET was answered from a cache, another by the network with status
\* 200, and its response has been put into the cache of this version.
C21_Witness ==
    \E i, j \in Answered :
        /\ fetchEvents[i].cached
        /\ ~fetchEvents[i].contacted
        /\ ~fetchEvents[j].cached
        /\ fetchEvents[j].status = 200
        /\ fetchEvents[j].worker = "new"
        /\ \E k \in 1..Len(caches) :
              /\ caches[k].name = CACHE_VERSION
              /\ fetchEvents[j].url \in caches[k].urls

\* C22: as the work of activate completes, no cache is left whose name is
\* not CACHE_VERSION; and from then on no fetch is answered from a cache of
\* another name.
C22_OldCachesGone ==
    [][/\ (worker.state = "activating" /\ worker'.state = "activated") =>
              \A k \in 1..Len(caches') : caches'[k].name = CACHE_VERSION
       /\ worker'.state = "activated" =>
              \A i \in 1..Len(fetchEvents') :
                  (/\ fetchEvents'[i].worker = "new"
                   /\ fetchEvents'[i].stage = "answered"
                   /\ fetchEvents'[i].cached) =>
                      fetchEvents'[i].from = CACHE_VERSION]_vars

\* The URLs the cache of this version holds.
CurrentCache ==
    UNION {caches[k].urls : k \in {j \in 1..Len(caches) : caches[j].name = CACHE_VERSION}}

\* C23: once the install has succeeded (skipWaiting has been called), the
\* cache of this version holds every URL of PRECACHE_URLS, and a GET for one
\* of them that this worker handles is answered without the network; if the
\* fetch of any of them failed, the install has failed, skipWaiting has not
\* been called and nothing has been stored.
C23_InstallAllOrNothing ==
    /\ (worker.skipWaiting \/ worker.state \in {"installed", "activating", "activated"}) =>
          /\ worker.failed = {}
          /\ PRECACHE_URLS \subseteq CurrentCache
    /\ worker.failed # {} =>
          /\ worker.state = "redundant"
          /\ ~worker.skipWaiting
          /\ CurrentCache = {}
    /\ \A i \in Answered :
          (fetchEvents[i].worker = "new" /\ fetchEvents[i].url \in PRECACHE_URLS) =>
              /\ ~fetchEvents[i].contacted
              /\ fetchEvents[i].from \notin {NoMatch, "network", "error"}

\* The install has succeeded and the worker, activated, has answered a GET
\* for a file of the app shell from its cache.
C23_Witness ==
    /\ worker.state = "activated"
    /\ PRECACHE_URLS \subseteq CurrentCache
    /\ \E i \in Answered :
          /\ fetchEvents[i].worker = "new"
          /\ fetchEvents[i].url \in PRECACHE_URLS
          /\ fetchEvents[i].from = CACHE_VERSION

\* How far the timer is from a milestone of def.days days: what is left to
\* count up to it, or to count down to it; negative once it has passed.
MilestoneDistance(t, def, totalDays) ==
    IF t.mode = "countup" THEN def.days - totalDays ELSE totalDays - def.days

\* The messages of the timer, by index, that are tied to a milestone which
\* has not passed and is no further than their daysBefore.
InMilestoneWindow(t, totalDays) ==
    {i \in 1..Len(t.messages) :
        LET msg == t.messages[i]
            def == resolveMilestone(msg.milestoneKey, t)
        IN  /\ msg.text # ""
            /\ def # NoMilestone
            /\ MilestoneDistance(t, def, totalDays) >= 0
            /\ MilestoneDistance(t, def, totalDays) <= msg.daysBefore}

\* C26: the message the detail screen shows after a refresh is one tied to a
\* milestone that has not passed yet and is within the message's daysBefore
\* window, and no other such message is tied to a nearer milestone; for a
\* countdown whose remaining days are below a milestone's days, that
\* milestone's message is not the one shown.
C26_MessageOfNearestMilestone ==
    (milestoneScreen = "detail" /\ milestoneDetail.message # NoMilestoneMessage) =>
        LET t == milestoneTimer
            d == milestoneDetail.totalDays
            m == milestoneDetail.message
            DistanceOf(i) ==
                MilestoneDistance(t, resolveMilestone(t.messages[i].milestoneKey, t), d)
        IN  \E i \in InMilestoneWindow(t, d) :
               /\ t.messages[i].text = m.text
               /\ t.messages[i].milestoneKey = m.milestoneName
               /\ \A j \in InMilestoneWindow(t, d) : DistanceOf(i) <= DistanceOf(j)

====
